---- MODULE Spec2Model ----
(***************************************************************************)
(* Model of task_dyva/visualization.py: PlotRTs, BarPlot, PlotModelLatents *)
(*                                                                         *)
(* Every plotting call is one action.  The axis handed to a call is        *)
(* modelled by `ax`, the sequence of charting-layer primitives the call    *)
(* issued on it, in order; `err` is the exception the call ended with      *)
(* ("none" when it returned) and `ret` the value a _format_* call returned.*)
(* Real-valued statistics are kept exact: a mean is a fraction, an         *)
(* error-bar length e is kept as the fraction e^2.                         *)
(***************************************************************************)
EXTENDS Integers, Sequences, FiniteSets, TLC

VARIABLES
    heap,       \* attribute dictionaries (__dict__ objects), by identity
    dict_of,    \* which dictionary each live object uses as its __dict__
    stats0,     \* the attributes of stats_obj before any PlotRTs was built
    bar_df,     \* BarPlot.df
    lat,        \* the PlotModelLatents instance (its fields after __init__)
    call,       \* the last call made
    args,       \* the arguments of the last call
    ax,         \* primitives issued on the axis by the last call
    err,        \* exception raised by the last call, or "none"
    ret         \* value returned by the last _format_* call

vars == <<heap, dict_of, stats0, bar_df, lat, call, args, ax, err, ret>>

-----------------------------------------------------------------------------
(* Bounds *)

MaxTrials == 3      \* trials in the statistics source

-----------------------------------------------------------------------------
(* Generic helpers *)

RECURSIVE Flatten(_)
Flatten(ss) == IF ss = <<>> THEN <<>> ELSE Head(ss) \o Flatten(Tail(ss))

RECURSIVE SumLens(_)
SumLens(ss) == IF ss = <<>> THEN 0 ELSE Len(Head(ss)) + SumLens(Tail(ss))

Min2(a, b) == IF a <= b THEN a ELSE b

Repeat(n, v) == [k \in 1..n |-> v]

NoArgs == [none |-> TRUE]

-----------------------------------------------------------------------------
(* The statistics source (EbbFlowStats) as far as this module reads it *)

RTs == {310, 420}   \* response times (ms) the trials draw from

Trial == [urt_ms : RTs, mrt_ms : RTs,
          is_switch : {0, 1}, is_congruent : {0, 1}]

TrialTables == UNION {[1..n -> Trial] : n \in 1..MaxTrials}

\* df[key]: a Series, i.e. the column with its index labels (RangeIndex)
Column(df, key) == [i \in 1..Len(df) |-> [idx |-> i - 1, val |-> df[i][key]]]

\* Exact match of a row against a filter dictionary
Matches(row, filters) == \A f \in DOMAIN filters : row[f] = filters[f]

\* Index labels of the rows from i on that match the filters, ascending
RECURSIVE Matching(_, _, _)
Matching(df, i, filters) ==
    IF i > Len(df) THEN <<>>
    ELSE (IF Matches(df[i], filters) THEN <<i - 1>> ELSE <<>>)
         \o Matching(df, i + 1, filters)

\* EbbFlowStats.select(**filters): labels of the exactly matching trials
select(df, filters) == Matching(df, 1, filters)

\* series[inds]: the entries with the given index labels, in the order of inds
Take(series, inds) ==
    [k \in 1..Len(inds) |->
        series[CHOOSE i \in 1..Len(series) : series[i].idx = inds[k]]]

-----------------------------------------------------------------------------
(* PlotRTs *)

\* pd.concat(plot_dists): values and index labels in order of appearance
concat(plot_dists) == Flatten(plot_dists)

\* The label arrays built by the zip loop (zip stops at the shortest list)
ExtendLabels(plot_dists, labels, n) ==
    Flatten([i \in 1..n |-> Repeat(Len(plot_dists[i]), labels[i])])

\* _format_as_df with the trial-type column filled from the model/user labels
_format_as_df_mislabelled(plot_dists, model_or_user, trial_types) ==
    LET all_rts == concat(plot_dists)
        n == Min2(Len(plot_dists), Min2(Len(model_or_user), Len(trial_types)))
        m_u_array == ExtendLabels(plot_dists, model_or_user, n)
        ttype_array == ExtendLabels(plot_dists, model_or_user, n)
    IN  IF Len(m_u_array) # Len(all_rts)
        THEN [error |-> "ValueError", df |-> <<>>]
        ELSE [error |-> "none",
              df |-> [k \in 1..Len(all_rts) |->
                        [idx |-> all_rts[k].idx,
                         rts |-> all_rts[k].val,
                         model_or_user |-> m_u_array[k],
                         trial_type |-> ttype_array[k]]]]

_format_as_df(plot_dists, model_or_user, trial_types) ==
    LET all_rts == concat(plot_dists)
        n == Min2(Len(plot_dists), Min2(Len(model_or_user), Len(trial_types)))
        m_u_array == ExtendLabels(plot_dists, model_or_user, n)
        ttype_array == ExtendLabels(plot_dists, trial_types, n)
    IN  IF Len(m_u_array) # Len(all_rts)
        THEN [error |-> "ValueError", df |-> <<>>]
        ELSE [error |-> "none",
              df |-> [k \in 1..Len(all_rts) |->
                        [idx |-> all_rts[k].idx,
                         rts |-> all_rts[k].val,
                         model_or_user |-> m_u_array[k],
                         trial_type |-> ttype_array[k]]]]

_format_all_args(self) ==
    [plot_dists |-> <<Column(self.df, "urt_ms"), Column(self.df, "mrt_ms")>>,
     model_or_user |-> <<"user", "model">>,
     trial_types |-> <<"N/A", "N/A">>]

_format_by_switch_args(self) ==
    LET stay_inds == select(self.df, [is_switch |-> 0])
        switch_inds == select(self.df, [is_switch |-> 1])
        u_stay_rts == Take(Column(self.df, "urt_ms"), stay_inds)
        m_stay_rts == Take(Column(self.df, "mrt_ms"), stay_inds)
        u_switch_rts == Take(Column(self.df, "urt_ms"), switch_inds)
        m_switch_rts == Take(Column(self.df, "mrt_ms"), switch_inds)
    IN  [plot_dists |-> <<u_stay_rts, u_switch_rts, m_stay_rts, m_switch_rts>>,
         model_or_user |-> <<"user", "user", "model", "model">>,
         trial_types |-> <<"Stay", "Switch", "Stay", "Switch">>]

_format_by_congruency_args(self) ==
    LET con_inds == select(self.df, [is_congruent |-> 1])
        incon_inds == select(self.df, [is_congruent |-> 0])
        u_con_rts == Take(Column(self.df, "urt_ms"), con_inds)
        m_con_rts == Take(Column(self.df, "mrt_ms"), con_inds)
        u_incon_rts == Take(Column(self.df, "urt_ms"), incon_inds)
        m_incon_rts == Take(Column(self.df, "mrt_ms"), incon_inds)
    IN  [plot_dists |-> <<u_con_rts, u_incon_rts, m_con_rts, m_incon_rts>>,
         model_or_user |-> <<"user", "user", "model", "model">>,
         trial_types |-> <<"Congruent", "Incongruent", "Congruent",
                           "Incongruent">>]

FormatArgs(self, mode) ==
    CASE mode = "all" -> _format_all_args(self)
      [] mode = "switch" -> _format_by_switch_args(self)
      [] mode = "congruency" -> _format_by_congruency_args(self)

Format(self, mode) ==
    LET a == FormatArgs(self, mode)
    IN  _format_as_df(a.plot_dists, a.model_or_user, a.trial_types)

\* Attribute assignment obj.k = v on the dictionary d
SetAttr(d, k, v) == [x \in DOMAIN d \cup {k} |-> IF x = k THEN v ELSE d[x]]

Palettes == {"viridis"}

\* The attributes a statistics object may carry before this module sees it
StatsDicts ==
    {[df |-> t] : t \in TrialTables}
    \cup {[df |-> t, palette |-> "stats_own"] : t \in TrialTables}

Constructed == "self" \in DOMAIN dict_of

\* The attributes seen through an object (attribute lookup via its __dict__)
Attrs(obj) == heap[dict_of[obj]]

InitRT ==
    /\ \E d \in StatsDicts :
        /\ heap = [i \in {"d1"} |-> d]
        /\ stats0 = d
    /\ dict_of = [o \in {"stats_obj"} |-> "d1"]
    /\ bar_df = <<>>
    /\ lat = NoArgs
    /\ call = "init"
    /\ args = NoArgs
    /\ ax = <<>>
    /\ err = "none"
    /\ ret = <<>>

\* PlotRTs.__init__: self.__dict__ = stats_obj.__dict__; self.palette = palette
PlotRTs__init__(palette) ==
    /\ dict_of' = [o \in {"stats_obj", "self"} |-> dict_of["stats_obj"]]
    /\ heap' = [heap EXCEPT ![dict_of'["self"]] = SetAttr(@, "palette", palette)]
    /\ call' = "PlotRTs.__init__"
    /\ args' = [palette |-> palette]
    /\ ax' = <<>>
    /\ err' = "none"
    /\ ret' = <<>>
    /\ UNCHANGED <<stats0, bar_df, lat>>

PlotTypes == {"all", "switch", "congruency", "stay"}

SupportedPlotTypes == {"all", "switch", "congruency"}

\* The primitives plot_rt_dists issues once plot_df is bound
RtDistPrims(self, plot_type, plot_df) ==
    <<[prim |-> "violinplot", data |-> plot_df, palette |-> self.palette]>>
    \o (IF plot_type = "all"
        THEN <<[prim |-> "set_xticks"]>>
        ELSE <<[prim |-> "set_xticklabels"]>>)
    \o <<[prim |-> "set_xlabel"], [prim |-> "set_ylabel"]>>

\* Outcome of plot_rt_dists: what reached the axis, and how the call ended
plot_rt_dists_outcome(self, plot_type) ==
    IF plot_type \in SupportedPlotTypes
    THEN LET f == Format(self, plot_type)
         IN  IF f.error # "none"
             THEN [ax |-> <<>>, err |-> f.error]
             ELSE [ax |-> RtDistPrims(self, plot_type, f.df), err |-> "none"]
    ELSE \* no branch bound plot_df: reading it for data=plot_df raises
         [ax |-> <<>>, err |-> "UnboundLocalError"]

plot_rt_dists(plot_type) ==
    /\ Constructed
    /\ LET o == plot_rt_dists_outcome(Attrs("self"), plot_type)
       IN  /\ ax' = o.ax
           /\ err' = o.err
    /\ call' = "plot_rt_dists"
    /\ args' = [plot_type |-> plot_type]
    /\ ret' = <<>>
    /\ UNCHANGED <<heap, dict_of, stats0, bar_df, lat>>

FormatCall(name, mode) ==
    /\ Constructed
    /\ LET a == FormatArgs(Attrs("self"), mode)
           f == _format_as_df(a.plot_dists, a.model_or_user, a.trial_types)
       IN  /\ args' = a
           /\ err' = f.error
           /\ ret' = f.df
    /\ call' = name
    /\ ax' = <<>>
    /\ UNCHANGED <<heap, dict_of, stats0, bar_df, lat>>

_format_all == FormatCall("_format_all", "all")

_format_by_switch == FormatCall("_format_by_switch", "switch")

_format_by_congruency == FormatCall("_format_by_congruency", "congruency")

NextRT ==
    \/ \E p \in Palettes : PlotRTs__init__(p)
    \/ \E t \in PlotTypes : plot_rt_dists(t)
    \/ _format_all
    \/ _format_by_switch
    \/ _format_by_congruency

SpecRT == InitRT /\ [][NextRT]_vars

\* A PlotRTs already built, with the default palette, over a statistics object
InitFormat ==
    /\ \E t \in TrialTables :
        /\ heap = [i \in {"d1"} |-> SetAttr([df |-> t], "palette", "viridis")]
        /\ stats0 = [df |-> t]
    /\ dict_of = [o \in {"stats_obj", "self"} |-> "d1"]
    /\ bar_df = <<>>
    /\ lat = NoArgs
    /\ call = "init"
    /\ args = NoArgs
    /\ ax = <<>>
    /\ err = "none"
    /\ ret = <<>>

NextFormat ==
    \/ _format_all
    \/ _format_by_switch
    \/ _format_by_congruency

SpecFormat == InitFormat /\ [][NextFormat]_vars

-----------------------------------------------------------------------------
(* Claims about PlotRTs *)

\* C1: plot_rt_dists called with a plot_type other than 'all', 'switch' or
\* 'congruency' fails with an explicit unsupported-grouping-mode error, raised
\* before any call is made on the axis.
C1_ExplicitModeError ==
    (call = "plot_rt_dists" /\ args.plot_type \notin SupportedPlotTypes)
        => (err = "UnsupportedGroupingMode" /\ ax = <<>>)

\* C8: the statistics object is never modified by this module: its attributes
\* and their values stay what they were before a PlotRTs was built on it.
C8_StatsImmutable == Attrs("stats_obj") = stats0

FormatCalls == {"_format_all", "_format_by_switch", "_format_by_congruency"}

\* Row at which series i starts in the concatenation, minus one
Offset(plot_dists, i) == SumLens(SubSeq(plot_dists, 1, i - 1))

\* The rts of the rows of a table that carry the labels mu and tt, in order
RowsOf(table, mu, tt) ==
    LET P(r) == r.model_or_user = mu /\ r.trial_type = tt
        sel == SelectSeq(table, P)
    IN  [k \in 1..Len(sel) |-> sel[k].rts]

\* The values of a column over the trials whose field has the value, in order
ValuesOf(df, key, field, value) ==
    LET P(r) == r[field] = value
        sel == SelectSeq(df, P)
    IN  [k \in 1..Len(sel) |-> sel[k][key]]

\* C7: the long-form table has as many rows as the input series have values;
\* row k carries the k-th value of the concatenated series with the labels of
\* the series it came from; 'all' gives 2 series labelled N/A, 'switch' and
\* 'congruency' give 4 series labelled by trial type crossed with user/model,
\* each holding the RTs of exactly the trials of that type, in trial order.
C7_TablePreservesSeries ==
    call \in FormatCalls =>
        /\ err = "none"
        /\ Len(ret) = SumLens(args.plot_dists)
        /\ \A i \in 1..Len(args.plot_dists) :
             \A j \in 1..Len(args.plot_dists[i]) :
                LET row == ret[Offset(args.plot_dists, i) + j]
                IN  /\ row.rts = args.plot_dists[i][j].val
                    /\ row.model_or_user = args.model_or_user[i]
                    /\ row.trial_type = args.trial_types[i]
        /\ call = "_format_all" =>
             /\ Len(args.plot_dists) = 2
             /\ RowsOf(ret, "user", "N/A") = [k \in 1..Len(stats0.df) |-> stats0.df[k].urt_ms]
             /\ RowsOf(ret, "model", "N/A") = [k \in 1..Len(stats0.df) |-> stats0.df[k].mrt_ms]
        /\ call = "_format_by_switch" =>
             /\ Len(args.plot_dists) = 4
             /\ RowsOf(ret, "user", "Stay") = ValuesOf(stats0.df, "urt_ms", "is_switch", 0)
             /\ RowsOf(ret, "user", "Switch") = ValuesOf(stats0.df, "urt_ms", "is_switch", 1)
             /\ RowsOf(ret, "model", "Stay") = ValuesOf(stats0.df, "mrt_ms", "is_switch", 0)
             /\ RowsOf(ret, "model", "Switch") = ValuesOf(stats0.df, "mrt_ms", "is_switch", 1)
        /\ call = "_format_by_congruency" =>
             /\ Len(args.plot_dists) = 4
             /\ RowsOf(ret, "user", "Congruent") = ValuesOf(stats0.df, "urt_ms", "is_congruent", 1)
             /\ RowsOf(ret, "user", "Incongruent") = ValuesOf(stats0.df, "urt_ms", "is_congruent", 0)
             /\ RowsOf(ret, "model", "Congruent") = ValuesOf(stats0.df, "mrt_ms", "is_congruent", 1)
             /\ RowsOf(ret, "model", "Incongruent") = ValuesOf(stats0.df, "mrt_ms", "is_congruent", 0)

\* Witness for C7: _format_by_switch on three trials, stay and switch both
\* present, with user RTs that differ between rows
C7_Witness ==
    /\ call = "_format_by_switch"
    /\ Len(ret) = 6
    /\ Len(args.plot_dists[1]) = 2
    /\ Len(args.plot_dists[2]) = 1
    /\ ret[1].rts # ret[2].rts
    /\ stats0.df[1].is_switch = 1

-----------------------------------------------------------------------------
(* BarPlot *)

MaxRows == 3        \* rows of the BarPlot table

XVals == {0, 1}     \* categories of the x column
HueVals == 1..3     \* values of the hue column
AVals == 1..3       \* values of the numeric column A
BVals == {4}        \* values of the numeric column B

BarRow == [x : XVals, hue : HueVals, A : AVals, B : BVals]

BarTables == UNION {[1..n -> BarRow] : n \in 0..MaxRows}

\* Exact numbers: num/den, or NaN
Frac(n, d) == [nan |-> FALSE, num |-> n, den |-> d]

NaN == [nan |-> TRUE, num |-> 0, den |-> 1]

FracEq(a, b) ==
    IF a.nan \/ b.nan THEN a.nan /\ b.nan
    ELSE a.num * b.den = b.num * a.den

RECURSIVE SumSeq(_)
SumSeq(d) == IF d = <<>> THEN 0 ELSE Head(d) + SumSeq(Tail(d))

RECURSIVE SumSq(_)
SumSq(d) == IF d = <<>> THEN 0 ELSE Head(d) * Head(d) + SumSq(Tail(d))

\* n times the sum of squared deviations from the mean: n*Sum(x^2) - Sum(x)^2
NDev(d) == Len(d) * SumSq(d) - SumSeq(d) * SumSeq(d)

\* np.mean(d) and pandas .mean(): NaN for no values
Mean(d) == IF Len(d) = 0 THEN NaN ELSE Frac(SumSeq(d), Len(d))

\* Square of np.std(d): numpy hands a Series to d.std(ddof=0)
NpStdSq(d) == IF Len(d) = 0 THEN NaN ELSE Frac(NDev(d), Len(d) * Len(d))

\* Square of pandas .std(), ddof=1: NaN for fewer than two values
PdStdSq(d) ==
    IF Len(d) < 2 THEN NaN ELSE Frac(NDev(d), Len(d) * (Len(d) - 1))

\* Square of pandas .sem(), ddof=1: NaN for fewer than two values
PdSemSq(d) ==
    IF Len(d) < 2 THEN NaN
    ELSE Frac(NDev(d), Len(d) * Len(d) * (Len(d) - 1))

\* Square of d_sem = np.std(d) / np.sqrt(len(d))
d_sem_sq(d) ==
    IF NpStdSq(d).nan THEN NaN
    ELSE Frac(NpStdSq(d).num, NpStdSq(d).den * Len(d))

supported_error == {"sem", "sd"}

ErrorTypes == {"sem", "sd", "variance"}

ColumnValues(df, key) == [i \in 1..Len(df) |-> df[i][key]]

\* Series.unique(): the distinct values in order of first appearance
RECURSIVE unique(_)
unique(col) ==
    IF col = <<>> THEN <<>>
    ELSE LET init == unique(SubSeq(col, 1, Len(col) - 1))
             last == col[Len(col)]
         IN  IF \E k \in 1..Len(init) : init[k] = last
             THEN init ELSE Append(init, last)

\* df.query('hue == @h')
query(df, hue, h) == LET P(r) == r[hue] = h IN SelectSeq(df, P)

\* The elements of a set of integers in ascending order (groupby sorts keys)
RECURSIVE Sorted(_)
Sorted(S) ==
    IF S = {} THEN <<>>
    ELSE LET m == CHOOSE a \in S : \A b \in S : a <= b
         IN  <<m>> \o Sorted(S \ {m})

_get_group_data(group_df, x, y, error_type) ==
    LET ks == Sorted({group_df[i][x] : i \in 1..Len(group_df)})
        grp(k) == ColumnValues(query(group_df, x, ks[k]), y)
    IN  [means |-> [k \in 1..Len(ks) |-> Mean(grp(k))],
         errors |-> [k \in 1..Len(ks) |->
                        IF error_type = "sem" THEN PdSemSq(grp(k))
                        ELSE PdStdSq(grp(k))]]

\* The primitives of _adjust_bar
_adjust_bar(plot_x, kwargs) ==
    <<[prim |-> "set_xlabel"], [prim |-> "set_ylabel"],
      [prim |-> "set_xticks", ticks |-> plot_x],
      [prim |-> "set_xticklabels"], [prim |-> "set_yticks"],
      [prim |-> "set_xlim"], [prim |-> "set_ylim"]>>
    \o (IF kwargs.plot_legend THEN <<[prim |-> "legend"]>> ELSE <<>>)

arange(n) == [k \in 1..n |-> k - 1]

NColors == 2    \* the two fixed colours of plot_grouped_bar

\* The loop of plot_grouped_bar from the i-th hue value on (i from 1); drawn
\* is what reached the axis so far.  x_offset is kept in half bar widths.
RECURSIVE GroupedLoop(_, _, _, _, _, _, _, _)
GroupedLoop(df, x, y, hue, error_type, kwargs, i, drawn) ==
    LET hue_types == unique(ColumnValues(df, hue))
    IN  IF i > Len(hue_types)
        THEN IF Len(hue_types) = 0
             THEN \* plot_x was never bound
                  [ax |-> drawn, err |-> "UnboundLocalError"]
             ELSE LET last == _get_group_data(
                                 query(df, hue, hue_types[Len(hue_types)]),
                                 x, y, error_type)
                  IN  [ax |-> drawn \o _adjust_bar(arange(Len(last.means)), kwargs),
                       err |-> "none"]
        ELSE LET g == _get_group_data(query(df, hue, hue_types[i]),
                                      x, y, error_type)
             IN  IF i > NColors
                 THEN \* colors[i] is out of range
                      [ax |-> drawn, err |-> "IndexError"]
                 ELSE GroupedLoop(df, x, y, hue, error_type, kwargs, i + 1,
                        Append(drawn,
                          [prim |-> "bar",
                           x |-> arange(Len(g.means)),
                           x_offset |-> 2 * i - 3,
                           height |-> g.means,
                           yerr |-> g.errors,
                           label |-> hue_types[i],
                           fc |-> i - 1]))

plot_grouped_bar_outcome(df, x, y, hue, error_type, kwargs) ==
    IF error_type \notin supported_error
    THEN [ax |-> <<>>, err |-> "AssertionError"]
    ELSE GroupedLoop(df, x, y, hue, error_type, kwargs, 1, <<>>)

plot_bar_outcome(df, keys, error_type, kwargs) ==
    IF error_type \notin supported_error
    THEN [ax |-> <<>>, err |-> "AssertionError"]
    ELSE LET plot_data == [k \in 1..Len(keys) |-> ColumnValues(df, keys[k])]
         IN  [ax |-> [di \in 1..Len(plot_data) |->
                        [prim |-> "bar",
                         x |-> di - 1,
                         height |-> Mean(plot_data[di]),
                         yerr |-> d_sem_sq(plot_data[di]),
                         key |-> keys[di],
                         fc |-> di - 1]]
                     \o _adjust_bar(arange(Len(plot_data)), kwargs),
              err |-> "none"]

InitBar ==
    /\ heap = [i \in {"d1"} |-> NoArgs]
    /\ dict_of = [o \in {"stats_obj"} |-> "d1"]
    /\ stats0 = NoArgs
    /\ bar_df \in BarTables
    /\ lat = NoArgs
    /\ call = "init"
    /\ args = NoArgs
    /\ ax = <<>>
    /\ err = "none"
    /\ ret = <<>>

KeyLists == {<<"A", "B">>}

BarKwargs == [plot_legend : BOOLEAN]

plot_grouped_bar(y, error_type, kwargs) ==
    /\ LET o == plot_grouped_bar_outcome(bar_df, "x", y, "hue", error_type, kwargs)
       IN  /\ ax' = o.ax
           /\ err' = o.err
    /\ call' = "plot_grouped_bar"
    /\ args' = [x |-> "x", y |-> y, hue |-> "hue", error_type |-> error_type]
    /\ ret' = <<>>
    /\ UNCHANGED <<heap, dict_of, stats0, bar_df, lat>>

plot_bar(keys, error_type, kwargs) ==
    /\ LET o == plot_bar_outcome(bar_df, keys, error_type, kwargs)
       IN  /\ ax' = o.ax
           /\ err' = o.err
    /\ call' = "plot_bar"
    /\ args' = [keys |-> keys, error_type |-> error_type]
    /\ ret' = <<>>
    /\ UNCHANGED <<heap, dict_of, stats0, bar_df, lat>>

NextBar ==
    \/ \E y \in {"A"}, e \in ErrorTypes, kw \in BarKwargs :
          plot_grouped_bar(y, e, kw)
    \/ \E keys \in KeyLists, e \in ErrorTypes, kw \in BarKwargs :
          plot_bar(keys, e, kw)

SpecBar == InitBar /\ [][NextBar]_vars

-----------------------------------------------------------------------------
(* Claims about BarPlot *)

DrawingPrims == {"bar", "violinplot", "plot", "scatter"}

Drawn(a) == {k \in 1..Len(a) : a[k].prim \in DrawingPrims}

HueCount == Cardinality({bar_df[i].hue : i \in 1..Len(bar_df)})

\* C2: plot_grouped_bar rejects with an error every table whose hue column
\* does not have exactly two distinct values, without having drawn any bars.
C2_RejectsHueCount ==
    (/\ call = "plot_grouped_bar"
     /\ args.error_type \in supported_error
     /\ HueCount # 2)
        => (err # "none" /\ Drawn(ax) = {})

\* C3: a plotting call that ends in an error has applied no drawing primitive
\* (bar, violin, line, scatter) to the axis.
C3_AllOrNothing == err # "none" => Drawn(ax) = {}

\* Sum of squared deviations from the mean, as a fraction
SqDev(d) == Frac(NDev(d), Len(d))

\* e * k for a fraction e and an integer k
Scale(e, k) == IF e.nan THEN NaN ELSE Frac(e.num * k, e.den)

\* C5: with error_type 'sem', each bar of plot_bar has the column mean as its
\* height, and for a column of n >= 2 values its squared error-bar length
\* times n*(n-1) is the sum of squared deviations from the mean ([1,2,3] gives
\* mean 2 and squared SEM 1/3).
C5_SemIsSampleSem ==
    (call = "plot_bar" /\ args.error_type = "sem" /\ err = "none") =>
        \A di \in 1..Len(args.keys) :
            LET d == ColumnValues(bar_df, args.keys[di])
                n == Len(d)
            IN  /\ FracEq(ax[di].height, Mean(d))
                /\ n >= 2 =>
                     FracEq(Scale(ax[di].yerr, n * (n - 1)), SqDev(d))

\* C9: with error_type 'sd', each bar of plot_bar carries the standard
\* deviation of its column (population or sample) as its error bar.
C9_SdIsStd ==
    (call = "plot_bar" /\ args.error_type = "sd" /\ err = "none") =>
        \A di \in 1..Len(args.keys) :
            LET d == ColumnValues(bar_df, args.keys[di])
            IN  Len(d) >= 2 =>
                    \/ FracEq(ax[di].yerr, NpStdSq(d))
                    \/ FracEq(ax[di].yerr, PdStdSq(d))

-----------------------------------------------------------------------------
(* PlotModelLatents *)

MaxMissing == 1     \* (task cue, stimulus direction) combinations left
                    \* without a trial; the others have one trial

stim_cue_vals ==
    <<<<0, 0>>, <<0, 1>>, <<0, 2>>, <<0, 3>>,
      <<1, 0>>, <<1, 1>>, <<1, 2>>, <<1, 3>>>>

labels_main ==
    <<"Moving L", "Moving R", "Moving U", "Moving D",
      "Pointing L", "Pointing R", "Pointing U", "Pointing D">>

styles == <<"-", "-", "-", "-", "--", "--", "--", "--">>

default_colors ==
    <<"royalblue", "forestgreen", "crimson", "orange",
      "royalblue", "forestgreen", "crimson", "orange">>

LatRTs == {0, 40}       \* model RTs (ms) of the trials
Steps == {20}           \* ms per sample
NPres == {0, 2}         \* pre-stimulus samples
PostOnDurs == {40}      \* post_on_dur (ms)

\* np.round of num/den (num >= 0, den > 0): to nearest, halves to even
RoundHalfEven(num, den) ==
    LET q == num \div den
        r == num % den
    IN  IF 2 * r < den THEN q
        ELSE IF 2 * r > den THEN q + 1
        ELSE IF q % 2 = 0 THEN q ELSE q + 1

\* What casting NaN to int gives: undefined in C; the builds in use give
\* the most negative int64 (x86-64) or 0 (AArch64).  A 32-bit value stands
\* for the former: what matters is that it lies below -CurveLen.
NaNCasts == {-2147483647, 0}

\* The trial of one (cue, direction) combination: the direction field of the
\* other task points elsewhere
CondTrial(c, rt_by_cue) ==
    LET cue == stim_cue_vals[c][1]
        stim == stim_cue_vals[c][2]
    IN  [task_cue |-> cue,
         mv_dir |-> IF cue = 0 THEN stim ELSE (stim + 1) % 4,
         point_dir |-> IF cue = 1 THEN stim ELSE (stim + 1) % 4,
         mrt_ms |-> rt_by_cue[cue]]

\* The data table holding one trial of each combination but the missing ones
LatTrials(missing, rt_by_cue) ==
    Flatten([c \in 1..8 |->
        IF c \in missing THEN <<>> ELSE <<CondTrial(c, rt_by_cue)>>])

MissingSets == {m \in SUBSET (1..8) : Cardinality(m) <= MaxMissing}

FixedPointTables == {[none |-> TRUE, mv |-> 0, pt |-> 0],
                     [none |-> FALSE, mv |-> 1, pt |-> 1]}

\* PlotModelLatents.__init__
PlotModelLatents__init__(data, post_on_dur, fixed_points) ==
    [df |-> data.df,
     m_rts |-> [i \in 1..Len(data.df) |-> data.df[i].mrt_ms],
     step |-> data.step,
     n_pre |-> data.n_pre,
     t_off_ind |-> data.n_pre + RoundHalfEven(post_on_dur, data.step),
     post_on_dur |-> post_on_dur,
     fixed_points |-> fixed_points]

\* kwargs.get(k, default)
Get(kw, k, default) == IF k \in DOMAIN kw THEN kw[k] ELSE default

\* dict.update
Update(d, e) ==
    [k \in DOMAIN d \cup DOMAIN e |-> IF k \in DOMAIN e THEN e[k] ELSE d[k]]

_get_main_series(self, cue_vals) ==
    [c \in 1..Len(cue_vals) |->
        LET this_cue == cue_vals[c][1]
            this_stim == cue_vals[c][2]
        IN  IF this_cue = 0
            THEN select(self.df, [mv_dir |-> this_stim, task_cue |-> this_cue])
            ELSE select(self.df, [point_dir |-> this_stim, task_cue |-> this_cue])]

\* self.m_rts[series], by position
RtOf(self, series) == [k \in 1..Len(series) |-> self.m_rts[series[k] + 1]]

\* _get_series_rt_samples; the mean of no trials is NaN and its cast to int
\* is whatever the build gives (cast)
_get_series_rt_samples(self, series, cast) ==
    IF series = <<>> THEN cast
    ELSE RoundHalfEven(SumSeq(RtOf(self, series)), Len(series) * self.step)

\* Samples of an averaged curve, latents[:t_off_ind] (the window holds them)
CurveLen(self) == self.t_off_ind

\* _mark_3d_plot: the averaged curve is indexed at t_ind, then scattered
_mark_3d_plot(self, a, series_inds, t_ind, marker) ==
    IF t_ind >= CurveLen(self) \/ t_ind < -CurveLen(self)
    THEN [ax |-> a, err |-> "IndexError"]
    ELSE [ax |-> Append(a, [prim |-> "scatter",
                            over |-> series_inds,
                            nan |-> series_inds = <<>>,
                            t |-> IF t_ind < 0 THEN t_ind + CurveLen(self)
                                  ELSE t_ind,
                            marker |-> marker]),
          err |-> "none"]

\* _plot_3d_line: the curve averaged over series_inds (NaN for no trials)
_plot_3d_line(a, i, series_inds, color, style, label, width) ==
    Append(a, [prim |-> "plot", series |-> i, over |-> series_inds,
               nan |-> series_inds = <<>>, color |-> color,
               linestyle |-> style, label |-> label, linewidth |-> width])

\* np.concatenate([series[i] for i in inds])
Concatenate(series, inds) ==
    Flatten([k \in 1..Len(inds) |-> series[inds[k] + 1]])

_plot_task_centroid(self, a, series, centroid_type, kwargs, cast) ==
    IF "mv_series_inds" \notin DOMAIN kwargs
       \/ "pt_series_inds" \notin DOMAIN kwargs
    THEN [ax |-> a, err |-> "KeyError"]
    ELSE LET mv_inds == Concatenate(series, kwargs.mv_series_inds)
             pt_inds == Concatenate(series, kwargs.pt_series_inds)
             marker == IF centroid_type = "onset" THEN "." ELSE "d"
             T(inds) == IF centroid_type = "onset" THEN self.n_pre
                        ELSE _get_series_rt_samples(self, inds, cast)
             first == _mark_3d_plot(self, a, mv_inds, T(mv_inds), marker)
         IN  IF first.err # "none" THEN first
             ELSE _mark_3d_plot(self, first.ax, pt_inds, T(pt_inds), marker)

\* The series loop of plot_3d from the i-th series on (i from 1)
RECURSIVE SeriesLoop(_, _, _, _, _, _, _)
SeriesLoop(self, series, labels, kwargs, cast, i, a) ==
    IF i > Len(series) THEN [ax |-> a, err |-> "none"]
    ELSE LET colors == Get(kwargs, "colors", default_colors)
             line_styles == Get(kwargs, "line_styles", Repeat(Len(series), "-"))
             width == Get(kwargs, "line_width", 5)   \* in tenths: 0.5
             s == series[i]
         IN  IF i > Len(labels) \/ i > Len(colors) \/ i > Len(line_styles)
             THEN [ax |-> a, err |-> "IndexError"]
             ELSE
             LET a1 == _plot_3d_line(a, i - 1, s, colors[i], line_styles[i],
                                     labels[i], width)
                 o2 == IF Get(kwargs, "plot_series_onset", FALSE)
                       THEN _mark_3d_plot(self, a1, s, self.n_pre, ".")
                       ELSE [ax |-> a1, err |-> "none"]
                 o3 == IF o2.err # "none" THEN o2
                       ELSE IF Get(kwargs, "plot_series_rt", FALSE)
                       THEN _mark_3d_plot(self, o2.ax, s,
                              _get_series_rt_samples(self, s, cast), "o")
                       ELSE o2
             IN  IF o3.err # "none" THEN o3
                 ELSE SeriesLoop(self, series, labels, kwargs, cast, i + 1, o3.ax)

_plot_fixed_points(self, a) ==
    a \o Repeat(self.fixed_points.mv, [prim |-> "scatter", over |-> <<>>,
                  nan |-> FALSE, t |-> 0, marker |-> "x"])
      \o Repeat(self.fixed_points.pt, [prim |-> "scatter", over |-> <<>>,
                  nan |-> FALSE, t |-> 0, marker |-> "x"])

_annotate_plot ==
    <<[prim |-> "set_xlabel"], [prim |-> "set_ylabel"], [prim |-> "set_zlabel"],
      [prim |-> "set_title"], [prim |-> "legend"]>>

_adjust_plot(a, kwargs) ==
    a \o <<[prim |-> "view_init"], [prim |-> "set_xlim"],
           [prim |-> "set_ylim"], [prim |-> "set_zlim"]>>
      \o (IF Get(kwargs, "remove_tick_labels", TRUE)
          THEN <<[prim |-> "set_xticklabels"], [prim |-> "set_yticklabels"],
                 [prim |-> "set_zticklabels"]>>
          ELSE <<>>)
      \o (IF Get(kwargs, "annotate", TRUE) THEN _annotate_plot ELSE <<>>)

plot_3d_outcome(self, series, labels, kwargs, cast) ==
    LET o1 == IF Get(kwargs, "plot_task_onset", FALSE)
              THEN _plot_task_centroid(self, <<>>, series, "onset", kwargs, cast)
              ELSE [ax |-> <<>>, err |-> "none"]
        o2 == IF o1.err # "none" THEN o1
              ELSE IF Get(kwargs, "plot_task_rt_centroid", FALSE)
              THEN _plot_task_centroid(self, o1.ax, series, "rt", kwargs, cast)
              ELSE o1
        o3 == IF o2.err # "none" THEN o2
              ELSE SeriesLoop(self, series, labels, kwargs, cast, 1, o2.ax)
    IN  IF o3.err # "none" THEN o3
        ELSE LET a4 == IF self.fixed_points.none THEN o3.ax
                       ELSE _plot_fixed_points(self, o3.ax)
             IN  [ax |-> _adjust_plot(a4, kwargs), err |-> "none"]

\* The keyword arguments plot_main_conditions hands to plot_3d: the preset
\* ones, then the caller's.  The local list styles is not among them.
plot_main_kwargs(kwargs) ==
    Update([mv_series_inds |-> <<0, 1, 2, 3>>,
            pt_series_inds |-> <<4, 5, 6, 7>>,
            plot_series_onset |-> FALSE, plot_series_rt |-> TRUE,
            plot_task_onset |-> TRUE, plot_task_rt_centroid |-> FALSE,
            line_width |-> 5],      \* in tenths: 0.5
           kwargs)

plot_main_conditions_outcome(self, kwargs, cast) ==
    plot_3d_outcome(self, _get_main_series(self, stim_cue_vals), labels_main,
                    plot_main_kwargs(kwargs), cast)

InitLatents ==
    /\ heap = [i \in {"d1"} |-> NoArgs]
    /\ dict_of = [o \in {"stats_obj"} |-> "d1"]
    /\ stats0 = NoArgs
    /\ bar_df = <<>>
    /\ \E missing \in MissingSets, rt_by_cue \in [{0, 1} -> LatRTs],
          step \in Steps, n_pre \in NPres, post_on_dur \in PostOnDurs,
          fps \in FixedPointTables :
         lat = PlotModelLatents__init__(
                  [df |-> LatTrials(missing, rt_by_cue), step |-> step,
                   n_pre |-> n_pre],
                  post_on_dur, fps)
    /\ call = "init"
    /\ args = NoArgs
    /\ ax = <<>>
    /\ err = "none"
    /\ ret = <<>>

\* Callers' keyword arguments for plot_main_conditions
MainKwargs ==
    {[annotate |-> TRUE],
     [annotate |-> TRUE, line_styles |-> Repeat(8, ":")],
     [annotate |-> FALSE, plot_task_rt_centroid |-> TRUE]}

\* Callers' trial-index groupings for plot_3d
SeriesLists(self) ==
    LET n == Len(self.df)
        groups == {<<>>} \cup {<<0>> : k \in 1..Min2(n, 1)}
                         \cup {<<0, 1>> : k \in 1..Min2(n - 1, 1)}
    IN  {<<g>> : g \in groups} \cup {<<g, <<>>>> : g \in groups \ {<<>>}}

Plot3dKwargs ==
    {[plot_series_onset |-> o, plot_series_rt |-> r] : o, r \in BOOLEAN}

plot_main_conditions(kwargs, cast) ==
    /\ LET o == plot_main_conditions_outcome(lat, kwargs, cast)
       IN  /\ ax' = o.ax
           /\ err' = o.err
    /\ call' = "plot_main_conditions"
    /\ args' = [series |-> _get_main_series(lat, stim_cue_vals),
                kwargs |-> kwargs]
    /\ ret' = <<>>
    /\ UNCHANGED <<heap, dict_of, stats0, bar_df, lat>>

plot_3d(series, kwargs, cast) ==
    /\ LET o == plot_3d_outcome(lat, series, Repeat(Len(series), "label"),
                                kwargs, cast)
       IN  /\ ax' = o.ax
           /\ err' = o.err
    /\ call' = "plot_3d"
    /\ args' = [series |-> series, kwargs |-> kwargs]
    /\ ret' = <<>>
    /\ UNCHANGED <<heap, dict_of, stats0, bar_df, lat>>

NextLatents ==
    \/ \E kw \in MainKwargs, cast \in NaNCasts : plot_main_conditions(kw, cast)
    \/ \E series \in SeriesLists(lat), kw \in Plot3dKwargs, cast \in NaNCasts :
          plot_3d(series, kw, cast)

SpecLatents == InitLatents /\ [][NextLatents]_vars

-----------------------------------------------------------------------------
(* Claims about PlotModelLatents *)

Lines(a) == {k \in 1..Len(a) : a[k].prim = "plot"}

\* C4: plot_main_conditions without a line_styles override draws the curves
\* of series 0-3 (moving task) solid and those of series 4-7 (pointing task)
\* dashed.
C4_PointingDashed ==
    (call = "plot_main_conditions" /\ "line_styles" \notin DOMAIN args.kwargs)
        => \A k \in Lines(ax) :
              ax[k].linestyle = IF ax[k].series < 4 THEN "-" ELSE "--"

LatentCalls == {"plot_3d", "plot_main_conditions"}

HasEmptyGroup(series) == \E i \in 1..Len(series) : series[i] = <<>>

\* C6: a call of the 3D plotter on a series with an empty trial-index group
\* ends in an error, and no curve or marker averaged over zero trials is
\* drawn.
C6_EmptyGroupFails ==
    (call \in LatentCalls /\ HasEmptyGroup(args.series))
        => /\ err # "none"
           /\ \A k \in Drawn(ax) : ~ax[k].nan

\* C10: with response-time markers on, for every non-empty group whose mean
\* model RT lies in [0, post_on_dur] the marker's sample index is a valid
\* index of the averaged curve (below t_off_ind) and not before the onset
\* sample n_pre.
C10_RtIndexInWindow ==
    (call \in LatentCalls
     /\ Get(IF call = "plot_3d" THEN args.kwargs
            ELSE plot_main_kwargs(args.kwargs), "plot_series_rt", FALSE))
        => \A i \in 1..Len(args.series) :
              LET s == args.series[i]
                  total == SumSeq(RtOf(lat, s))
              IN  (s # <<>> /\ total >= 0 /\ total <= lat.post_on_dur * Len(s))
                    => LET t == _get_series_rt_samples(lat, s, 0)
                       IN  t < lat.t_off_ind /\ t >= lat.n_pre

====
